---------------------------- MODULE Spec2Model ----------------------------
(***************************************************************************)
(* The e-mail assistant of the agent notebook: a triage router followed by *)
(* a tool-calling agent, both LangGraph graphs over one State              *)
(* (email_input, classification_decision, messages).                       *)
(*                                                                         *)
(* One run of overall_workflow.invoke({"email_input": ...}) is modelled,   *)
(* or one call of the triage_router node alone (the triage evaluation).    *)
(* Every graph node is one action: the node's function, the state update   *)
(* it returns (messages are appended by the MessagesState reducer) and the *)
(* routing that follows it (Command.goto, the conditional edge             *)
(* should_continue, the fixed edge tool_handler -> llm_call).  A node that *)
(* raises, or whose conditional edge raises, ends the run with the error   *)
(* and its update is not applied: the runtime commits a step's writes      *)
(* only when the step succeeded.                                           *)
(*                                                                         *)
(* The language model is the environment: its answers (the triage          *)
(* category, the batch of tool calls of an assistant turn, an error) and   *)
(* the outcome of a tool's invoke (returns or raises) are chosen           *)
(* nondeterministically from small sets.                                   *)
(***************************************************************************)
EXTENDS Integers, Sequences, FiniteSets, TLC

\* ------------------------------------------------------------------ bounds

\* Most tool calls the model returns in one assistant turn.
MaxBatch == 2

\* Supersteps the runtime lets the agent graph take before it raises
\* GraphRecursionError (the graph is compiled and invoked with the default
\* recursion limit; the model scales it down).
RecursionLimit == 4

\* --------------------------------------------------------------- constants

END == "__end__"

None == "None"

\* tools = [write_email, schedule_meeting, check_calendar_availability, Done]
\* tools_by_name = {tool.name: tool for tool in tools}
tools_by_name ==
    {"write_email", "schedule_meeting", "check_calendar_availability", "Done"}

\* Tool names the model may put in a tool call: registered ones and one
\* name that is not in the registry (nothing in llm_call validates names).
PortToolNames == {"write_email", "schedule_meeting", "Done", "lookup_contact"}

\* RouterSchema.classification values, and one value outside the enum.
RouterCategories == {"ignore", "respond", "notify"}

PortCategories == RouterCategories \cup {"urgent"}

\* The two example e-mails the notebook runs the workflow on.
EmailInputs == {"maintenance", "api_question"}

VARIABLES
    email_input,              \* State.email_input
    classification_decision,  \* State.classification_decision ("unset": no key)
    messages,                 \* State.messages
    node,                     \* the node the runtime runs next
    status,                   \* "running" | "completed" | "failed"
    error,                    \* the exception that ended the run, or "none"
    step,                     \* supersteps the agent graph has taken
    classifyCalls,            \* llm_router.invoke calls so far
    actCalls,                 \* llm_with_tools.invoke calls so far
    answer,                   \* the model's last answer to llm_call
    invoked,                  \* tool calls handed to tool.invoke, in order
    triage,                   \* the category the model answered to triage
    context,                  \* the prompt of the last llm_with_tools.invoke
    harness,                  \* what the caller invokes: the workflow or
                              \* the triage_router node alone
    inputs,                   \* what each step of this run was given by the
                              \* model and the tools, in order
    other,                    \* the state of a second run of the process
                              \* while this one is scheduled (NoRun: none)
    pending,                  \* the run's Interrupt Request (NoRequest: none)
    cursor,                   \* calls of the current batch already dispatched
    applied,                  \* the Verdicts applied to the run, in order
    submitted,                \* Verdicts submitted for the run so far
    verdictOutcome,           \* the request the last submitted Verdict named
                              \* and what the Verdict came to
    store,                    \* Memory Store: namespace -> Preference Document
    adapters,                 \* the feedback adapters' Merge operations in flight
    merged                    \* the Merge operations that committed, in order

vars == <<email_input, classification_decision, messages, node, status, error,
          step, classifyCalls, actCalls, answer, invoked, triage, context,
          harness, inputs, other, pending, cursor, applied, submitted,
          verdictOutcome, store, adapters, merged>>

\* The Interrupt/Resume Controller's and the Memory Store's state.  The
\* notebook's agent has neither: its nodes leave these untouched.
controlVars == <<pending, cursor, applied, submitted, verdictOutcome, store,
                 adapters, merged>>

\* ------------------------------------------------------------------- turns

\* A turn's content is a tuple of text parts (none for an assistant turn
\* that only carries tool calls).

UserTurn(content) ==
    [role |-> "user", content |-> content, tool_calls |-> <<>>, tool_call_id |-> 0]

AssistantTurn(calls) ==
    [role |-> "assistant", content |-> <<>>, tool_calls |-> calls,
     tool_call_id |-> 0]

ToolTurn(observation, id) ==
    [role |-> "tool", content |-> observation, tool_calls |-> <<>>, tool_call_id |-> id]

\* {"role": "system", "content": agent_system_prompt.format(...)}
SystemTurn ==
    [role |-> "system", content |-> <<"agent_system_prompt">>,
     tool_calls |-> <<>>, tool_call_id |-> 0]

\* Mutant: the messages key has no reducer, an update overwrites it.
overwrite_messages(left, right) == right

\* The reducer of MessagesState: the messages of an update are appended to
\* the messages of the state.
add_messages(left, right) == left \o right

\* What a caller invokes: overall_workflow (a full run), or, as the triage
\* evaluation does, the triage_router node alone, which returns its Command
\* without following its goto.
Harnesses == {"workflow", "triage_router"}

\* One answer of the environment to a node: the category llm_router
\* returned, the names of the tool calls llm_with_tools returned (or its
\* error), or the position of the tool call whose invoke raised (0: none).
TriageInput(category) ==
    [node |-> "triage_router", category |-> category, kind |-> "category",
     names |-> <<>>, k |-> 0]

LlmInput(ans) ==
    [node |-> "llm_call", category |-> "", kind |-> ans.kind,
     names |-> ans.names, k |-> 0]

ToolInput(k) ==
    [node |-> "tool_handler", category |-> "", kind |-> "outcome",
     names |-> <<>>, k |-> k]

\* The step the runtime takes at the recursion limit is given nothing.
LimitInput ==
    [node |-> "runtime", category |-> "", kind |-> "limit",
     names |-> <<>>, k |-> 0]

\* f"Respond to the email: \n\n{format_email_markdown(...)}"
RespondPrompt(email) == <<"Respond to the email", email>>

\* Batches of tool names of length 0..MaxBatch.
Batches == UNION {[1..n -> PortToolNames] : n \in 0..MaxBatch}

\* Tool calls already requested in the conversation.
RECURSIVE CallCount(_)
CallCount(msgs) ==
    IF msgs = <<>> THEN 0
    ELSE Len(msgs[Len(msgs)].tool_calls) + CallCount(SubSeq(msgs, 1, Len(msgs) - 1))

\* The model's tool calls: each carries an id of its own (ids are issued by
\* the model provider and are unique within a run).
MakeCalls(names, msgs) ==
    [i \in 1..Len(names) |-> [id |-> CallCount(msgs) + i, name |-> names[i]]]

\* ------------------------------------------------------------ triage_router

\* Mutant: the notify branch hands the e-mail to the response agent.
triage_router_notify_responds(category, email) ==
    IF category \in {"respond", "notify"} THEN
        [raised |-> FALSE, goto |-> "response_agent",
         messages |-> <<UserTurn(RespondPrompt(email))>>,
         classification_decision |-> category]
    ELSE IF category = "ignore" THEN
        [raised |-> FALSE, goto |-> END, messages |-> <<>>,
         classification_decision |-> category]
    ELSE
        [raised |-> TRUE, goto |-> None, messages |-> <<>>,
         classification_decision |-> "unset"]

\* Mutant: a category outside the enum is treated as ignore.
triage_router_guesses(category, email) ==
    IF category = "respond" THEN
        [raised |-> FALSE, goto |-> "response_agent",
         messages |-> <<UserTurn(RespondPrompt(email))>>,
         classification_decision |-> category]
    ELSE IF category = "notify" THEN
        [raised |-> FALSE, goto |-> END, messages |-> <<>>,
         classification_decision |-> category]
    ELSE
        [raised |-> FALSE, goto |-> END, messages |-> <<>>,
         classification_decision |-> "ignore"]

\* Mutant: the respond branch leaves the messages out of its update.
triage_router_no_seed(category, email) ==
    IF category \in RouterCategories THEN
        [raised |-> FALSE,
         goto |-> IF category = "respond" THEN "response_agent" ELSE END,
         messages |-> <<>>, classification_decision |-> category]
    ELSE
        [raised |-> TRUE, goto |-> None, messages |-> <<>>,
         classification_decision |-> "unset"]

\* Mutant: the notify branch records the classification of the ignore
\* branch.
triage_router_notify_as_ignore(category, email) ==
    IF category = "respond" THEN
        [raised |-> FALSE, goto |-> "response_agent",
         messages |-> <<UserTurn(RespondPrompt(email))>>,
         classification_decision |-> category]
    ELSE IF category \in {"ignore", "notify"} THEN
        [raised |-> FALSE, goto |-> END, messages |-> <<>>,
         classification_decision |-> "ignore"]
    ELSE
        [raised |-> TRUE, goto |-> None, messages |-> <<>>,
         classification_decision |-> "unset"]

\* Mutant: the respond branch leaves classification_decision out of its
\* update.
triage_router_respond_unrecorded(category, email) ==
    IF category = "respond" THEN
        [raised |-> FALSE, goto |-> "response_agent",
         messages |-> <<UserTurn(RespondPrompt(email))>>,
         classification_decision |-> "unset"]
    ELSE IF category \in {"ignore", "notify"} THEN
        [raised |-> FALSE, goto |-> END, messages |-> <<>>,
         classification_decision |-> category]
    ELSE
        [raised |-> TRUE, goto |-> None, messages |-> <<>>,
         classification_decision |-> "unset"]

\* Mutant: the notify branch puts a notification into the messages.
triage_router_notify_appends(category, email) ==
    IF category = "respond" THEN
        [raised |-> FALSE, goto |-> "response_agent",
         messages |-> <<UserTurn(RespondPrompt(email))>>,
         classification_decision |-> category]
    ELSE IF category = "ignore" THEN
        [raised |-> FALSE, goto |-> END, messages |-> <<>>,
         classification_decision |-> category]
    ELSE IF category = "notify" THEN
        [raised |-> FALSE, goto |-> END,
         messages |-> <<UserTurn(<<"Notify about the email", email>>)>>,
         classification_decision |-> category]
    ELSE
        [raised |-> TRUE, goto |-> None, messages |-> <<>>,
         classification_decision |-> "unset"]

\* The Command triage_router returns for the category the model answered:
\* goto, the messages of its update and the classification it records;
\* raised is the ValueError of the else branch.
triage_router(category, email) ==
    IF category = "respond" THEN
        [raised |-> FALSE, goto |-> "response_agent",
         messages |-> <<UserTurn(RespondPrompt(email))>>,
         classification_decision |-> category]
    ELSE IF category = "ignore" THEN
        [raised |-> FALSE, goto |-> END, messages |-> <<>>,
         classification_decision |-> category]
    ELSE IF category = "notify" THEN
        [raised |-> FALSE, goto |-> END, messages |-> <<>>,
         classification_decision |-> category]
    ELSE
        [raised |-> TRUE, goto |-> None, messages |-> <<>>,
         classification_decision |-> "unset"]

\* Mutant: triage is run again after it has failed.
TriageRouterReruns ==
    /\ node = "triage_router"
    /\ \E category \in PortCategories :
         LET cmd == triage_router(category, email_input) IN
           /\ classifyCalls' = classifyCalls + 1
           /\ triage' = category
           /\ inputs' = Append(inputs, TriageInput(category))
           /\ IF cmd.raised THEN
                 /\ status' = "failed"
                 /\ error' = "ValueError"
                 /\ UNCHANGED <<classification_decision, messages, node>>
              ELSE
                 /\ classification_decision' = cmd.classification_decision
                 /\ messages' = add_messages(messages, cmd.messages)
                 /\ IF cmd.goto = "response_agent" /\ harness = "workflow" THEN
                       /\ node' = "llm_call"
                       /\ status' = "running"
                    ELSE
                       /\ node' = END
                       /\ status' = "completed"
                 /\ error' = error
    /\ UNCHANGED <<email_input, step, actCalls, answer, invoked, context, harness,
                   other>>
    /\ UNCHANGED controlVars

TriageRouter ==
    /\ status = "running"
    /\ node = "triage_router"
    /\ \E category \in PortCategories :
         LET cmd == triage_router(category, email_input) IN
           /\ classifyCalls' = classifyCalls + 1
           /\ triage' = category
           /\ inputs' = Append(inputs, TriageInput(category))
           /\ IF cmd.raised THEN
                 /\ status' = "failed"
                 /\ error' = "ValueError"
                 /\ UNCHANGED <<classification_decision, messages, node>>
              ELSE
                 /\ classification_decision' = cmd.classification_decision
                 /\ messages' = add_messages(messages, cmd.messages)
                 /\ IF cmd.goto = "response_agent" /\ harness = "workflow" THEN
                       /\ node' = "llm_call"
                       /\ status' = "running"
                    ELSE
                       /\ node' = END
                       /\ status' = "completed"
                 /\ error' = error
    /\ UNCHANGED <<email_input, step, actCalls, answer, invoked, context, harness,
                   other>>
    /\ UNCHANGED controlVars

\* ------------------------------------------------------------- the runtime

\* Mutant: the runtime puts no limit on the supersteps.
NoRecursionLimit(s) == TRUE

\* agent = overall_workflow.compile(), invoked with the default config: the
\* runtime runs the node that is due only while the agent graph has taken
\* fewer than RecursionLimit supersteps.
WithinRecursionLimit(s) == s < RecursionLimit

\* ----------------------------------------------------------------- llm_call

\* The update llm_call returns: one assistant turn, the model's answer with
\* whatever tool calls it holds (none is a possible answer: tool_choice is a
\* request to the provider, nothing in llm_call checks the response).
llm_call(msgs, names) == <<AssistantTurn(MakeCalls(names, msgs))>>

\* Mutant: an assistant turn without tool calls ends the run normally.
should_continue_ends_without_calls(msgs) ==
    LET last_message == msgs[Len(msgs)] IN
      IF last_message.tool_calls # <<>>
           /\ last_message.tool_calls[1].name # "Done"
      THEN "tool_handler"
      ELSE END

\* Mutant: the loop looks at every tool call of the batch for Done.
should_continue_any_done(msgs) ==
    LET last_message == msgs[Len(msgs)] IN
      IF last_message.tool_calls # <<>> THEN
          IF \E i \in DOMAIN last_message.tool_calls :
                last_message.tool_calls[i].name = "Done"
          THEN END
          ELSE "tool_handler"
      ELSE None

\* should_continue on the state that holds llm_call's update.  The loop body
\* returns in its first iteration, so only the first tool call is looked at;
\* with no tool call the function falls off its end and returns None.
should_continue(msgs) ==
    LET last_message == msgs[Len(msgs)] IN
      IF last_message.tool_calls # <<>> THEN
          IF last_message.tool_calls[1].name = "Done" THEN END
          ELSE "tool_handler"
      ELSE None

\* The conditional edge's path map {"tool_handler": "tool_handler", END: END}.
PathMap == {"tool_handler", END}

\* Mutant: an error of the model is swallowed and an answer without tool
\* calls stands in for it.
PortNeverRaises(ans) == FALSE

\* llm_with_tools.invoke raises instead of returning an answer.
PortRaised(ans) == ans.kind = "error"

\* What the model answers to llm_call: a batch of tool calls, or an error.
\* (NoAnswer and the input records below only need the shape of an answer.)
PortAnswers ==
    {[kind |-> "tool_calls", names |-> b] : b \in Batches}
        \cup {[kind |-> "error", names |-> <<>>]}

\* No answer yet.
NoAnswer == [kind |-> "none", names |-> <<>>]

LlmCall ==
    /\ status = "running"
    /\ node = "llm_call"
    /\ WithinRecursionLimit(step)
    /\ \E ans \in PortAnswers :
         /\ answer' = ans
         /\ inputs' = Append(inputs, LlmInput(ans))
         /\ IF PortRaised(ans) THEN
               /\ status' = "failed"
               /\ error' = "LLMError"
               /\ UNCHANGED <<messages, node>>
            ELSE
               LET new == add_messages(messages, llm_call(messages, ans.names))
                   goto == should_continue(new)
               IN IF goto \in PathMap THEN
                     /\ messages' = new
                     /\ node' = goto
                     /\ status' = IF goto = END THEN "completed" ELSE "running"
                     /\ error' = error
                  ELSE
                     \* the branch has no destination for None: KeyError
                     /\ status' = "failed"
                     /\ error' = "KeyError"
                     /\ UNCHANGED <<messages, node>>
    /\ context' = <<SystemTurn>> \o messages
    /\ actCalls' = actCalls + 1
    /\ step' = step + 1
    /\ UNCHANGED <<email_input, classification_decision, classifyCalls, invoked,
                   triage, harness, other>>
    /\ UNCHANGED controlVars

\* ------------------------------------------------------------- tool_handler

\* What tool.invoke returns for a call.
Observation(call) == <<"observation", call.name>>

\* One tool.invoke: the call, and whether the invoke raised.
Invocation(call, raised) == [id |-> call.id, name |-> call.name, raised |-> raised]

\* The for loop of tool_handler from its i-th tool call on: result is the
\* list built so far, inv the calls handed to tool.invoke so far, and k the
\* position of the call whose invoke raises (0: none does).  A name that is
\* not in tools_by_name raises KeyError at the lookup, before any invoke.
RECURSIVE RunToolCalls(_, _, _, _, _)
RunToolCalls(calls, i, k, result, inv) ==
    IF i > Len(calls) THEN
        [raised |-> "none", messages |-> result, invoked |-> inv]
    ELSE IF calls[i].name \notin tools_by_name THEN
        [raised |-> "KeyError", messages |-> <<>>, invoked |-> inv]
    ELSE IF i = k THEN
        [raised |-> "ToolException", messages |-> <<>>,
         invoked |-> Append(inv, Invocation(calls[i], TRUE))]
    ELSE
        RunToolCalls(calls, i + 1, k,
                     Append(result, ToolTurn(Observation(calls[i]), calls[i].id)),
                     Append(inv, Invocation(calls[i], FALSE)))

\* Mutant: schedule_meeting calls are held back instead of being run.
tool_handler_defers_meeting(msgs, k) ==
    LET calls == msgs[Len(msgs)].tool_calls IN
      RunToolCalls(SelectSeq(calls, LAMBDA c : c.name # "schedule_meeting"),
                   1, k, <<>>, <<>>)

\* Mutant: an invoke that raises is caught and its error text is appended
\* as the call's tool message.
RECURSIVE RunToolCallsCatching(_, _, _, _, _)
RunToolCallsCatching(calls, i, k, result, inv) ==
    IF i > Len(calls) THEN
        [raised |-> "none", messages |-> result, invoked |-> inv]
    ELSE IF calls[i].name \notin tools_by_name THEN
        [raised |-> "KeyError", messages |-> <<>>, invoked |-> inv]
    ELSE
        RunToolCallsCatching(calls, i + 1, k,
            Append(result,
                   ToolTurn(IF i = k THEN <<"error", calls[i].name>>
                            ELSE Observation(calls[i]), calls[i].id)),
            Append(inv, Invocation(calls[i], i = k)))

tool_handler_catches(msgs, k) ==
    RunToolCallsCatching(msgs[Len(msgs)].tool_calls, 1, k, <<>>, <<>>)

\* Mutant: every tool message carries the id of the batch's first call.
tool_handler_first_id(msgs, k) ==
    LET calls == msgs[Len(msgs)].tool_calls
        r == RunToolCalls(calls, 1, k, <<>>, <<>>)
    IN [r EXCEPT !.messages =
            [i \in DOMAIN r.messages |->
                [r.messages[i] EXCEPT !.tool_call_id = calls[1].id]]]

\* Mutant: each tool message is put at the front of the result list.
tool_handler_prepends(msgs, k) ==
    LET r == RunToolCalls(msgs[Len(msgs)].tool_calls, 1, k, <<>>, <<>>)
    IN [r EXCEPT !.messages =
            [i \in DOMAIN r.messages |-> r.messages[Len(r.messages) + 1 - i]]]

\* tool_handler: runs every tool call of the last message, in order, and
\* returns the tool messages as its update.
tool_handler(msgs, k) ==
    RunToolCalls(msgs[Len(msgs)].tool_calls, 1, k, <<>>, <<>>)

\* Mutant: the edge leads back to tool_handler.
ToolHandlerEdgeSelf == "tool_handler"

\* overall_workflow.add_edge("tool_handler", "llm_call")
ToolHandlerEdge == "llm_call"

\* Mutant: the tool results of a batch are appended as the tools complete,
\* in either order.
ToolHandlerCompletionOrder ==
    /\ status = "running"
    /\ node = "tool_handler"
    /\ WithinRecursionLimit(step)
    /\ \E k \in 0..Len(messages[Len(messages)].tool_calls) :
         LET r == tool_handler(messages, k) IN
           /\ invoked' = invoked \o r.invoked
           /\ inputs' = Append(inputs, ToolInput(k))
           /\ IF r.raised # "none" THEN
                 /\ status' = "failed"
                 /\ error' = r.raised
                 /\ UNCHANGED <<messages, node>>
              ELSE
                 /\ \E swap \in BOOLEAN :
                      messages' = add_messages(messages,
                          IF swap /\ Len(r.messages) = 2
                          THEN <<r.messages[2], r.messages[1]>>
                          ELSE r.messages)
                 /\ node' = ToolHandlerEdge
                 /\ UNCHANGED <<status, error>>
    /\ step' = step + 1
    /\ UNCHANGED <<email_input, classification_decision, classifyCalls, actCalls,
                   answer, triage, context, harness, other>>
    /\ UNCHANGED controlVars

\* Mutant: the results collected before the call that raised are returned.
ToolHandlerCommitsPartial ==
    /\ status = "running"
    /\ node = "tool_handler"
    /\ WithinRecursionLimit(step)
    /\ \E k \in 0..Len(messages[Len(messages)].tool_calls) :
         LET r == tool_handler(messages, k)
             calls == messages[Len(messages)].tool_calls
             done == {i \in DOMAIN r.invoked : ~r.invoked[i].raised}
         IN
           /\ invoked' = invoked \o r.invoked
           /\ inputs' = Append(inputs, ToolInput(k))
           /\ IF r.raised # "none" THEN
                 /\ status' = "failed"
                 /\ error' = r.raised
                 /\ messages' = add_messages(messages,
                       [i \in 1..Cardinality(done) |->
                          ToolTurn(Observation(calls[i]), calls[i].id)])
                 /\ UNCHANGED node
              ELSE
                 /\ messages' = add_messages(messages, r.messages)
                 /\ node' = ToolHandlerEdge
                 /\ UNCHANGED <<status, error>>
    /\ step' = step + 1
    /\ UNCHANGED <<email_input, classification_decision, classifyCalls, actCalls,
                   answer, triage, context, harness, other>>
    /\ UNCHANGED controlVars

ToolHandler ==
    /\ status = "running"
    /\ node = "tool_handler"
    /\ WithinRecursionLimit(step)
    /\ \E k \in 0..Len(messages[Len(messages)].tool_calls) :
         LET r == tool_handler(messages, k) IN
           /\ invoked' = invoked \o r.invoked
           /\ inputs' = Append(inputs, ToolInput(k))
           /\ IF r.raised # "none" THEN
                 /\ status' = "failed"
                 /\ error' = r.raised
                 /\ UNCHANGED <<messages, node>>
              ELSE
                 /\ messages' = add_messages(messages, r.messages)
                 /\ node' = ToolHandlerEdge
                 /\ UNCHANGED <<status, error>>
    /\ step' = step + 1
    /\ UNCHANGED <<email_input, classification_decision, classifyCalls, actCalls,
                   answer, triage, context, harness, other>>
    /\ UNCHANGED controlVars

\* Mutant: at the limit the runtime stops scheduling but raises nothing.
RecursionLimitStalls ==
    /\ status = "running"
    /\ node \in {"llm_call", "tool_handler"}
    /\ ~WithinRecursionLimit(step)
    /\ UNCHANGED vars

\* When a node is still due after RecursionLimit supersteps the runtime
\* raises GraphRecursionError instead of running it.
GraphRecursionError ==
    /\ status = "running"
    /\ node \in {"llm_call", "tool_handler"}
    /\ ~WithinRecursionLimit(step)
    /\ status' = "failed"
    /\ error' = "GraphRecursionError"
    /\ inputs' = Append(inputs, LimitInput)
    /\ UNCHANGED <<email_input, classification_decision, messages, node, step,
                   classifyCalls, actCalls, answer, invoked, triage, context,
                   harness, other>>
    /\ UNCHANGED controlVars

\* ------------------------------------------------------------ memory store
\* The Memory Store and the Memory Feedback Adapter are code of the
\* repository (email_assistant_hitl_memory) that the agent notebook does
\* not contain; they are modelled from the specification, section 4.4
\* and section 5.

\* Preference Document namespaces.
Namespaces == {"cal_preferences", "response_preferences"}

\* Rule keys and rule texts of corrections.
RuleKeys == {"duration", "tone"}

RuleTexts == {"a", "b"}

Corrections == [key : RuleKeys, text : RuleTexts]

RECURSIVE KeyIndex(_, _, _)
\* The position of the first rule at or after i that carries key, 0: none.
KeyIndex(rules, key, i) ==
    IF i > Len(rules) THEN 0
    ELSE IF rules[i].key = key THEN i
    ELSE KeyIndex(rules, key, i + 1)

\* Mutant: append only, a rule of the same key is never superseded.
MergeAppendOnly(rules, correction) == Append(rules, correction)

\* Merge is append-with-supersede: a correction carrying the rule key of an
\* existing rule replaces it, otherwise it is appended.
Merge(rules, correction) ==
    LET i == KeyIndex(rules, correction.key, 1) IN
      IF i = 0 THEN Append(rules, correction)
      ELSE [rules EXCEPT ![i] = correction]

\* A Preference Document with the version the compare-and-swap compares.
EmptyDocument == [version |-> 0, rules |-> <<>>]

EmptyStore == [ns \in Namespaces |-> EmptyDocument]

\* Read(namespace) -> Preference Document
Read(st, ns) == st[ns].rules

\* Mutant: the swap does not compare versions.
CasBlind(current, seen) == TRUE

\* The compare of the compare-and-swap: nobody committed since the read.
CasSucceeds(current, seen) == current.version = seen.version

\* The document a successful swap installs.
Committed(seen, correction) ==
    [version |-> seen.version + 1, rules |-> Merge(seen.rules, correction)]

\* ------------------------------------------------- interrupt/resume controller
\* The Interrupt/Resume Controller is code of the repository
\* (email_assistant_hitl) that the agent notebook does not contain; it is
\* modelled from the specification, sections 4.2, 4.3 and 5.

\* The Tool Registry's declared risk tier.
RiskTier(name) ==
    IF name = "schedule_meeting" THEN "requires-approval" ELSE "safe"

VerdictKinds == {"approve", "edit", "reject", "respond_instead"}

\* Payloads of a Verdict: the edited argument, the reason, the literal text.
Payloads == {"p", "q"}

NoCall == [id |-> 0, name |-> ""]

NoRequest == [id |-> 0, tool_call |-> NoCall, risk_tier |-> "", preview |-> <<>>]

\* {run_id, tool_call, risk_tier, proposed_preview}; one run is modelled,
\* the request is identified by its tool call's id.
InterruptRequest(call) ==
    [id |-> call.id, tool_call |-> call, risk_tier |-> RiskTier(call.name),
     preview |-> <<"preview", call.name>>]

\* The turn a respond_instead Verdict appends: the reviewer's literal text.
ResponseTurn(text) ==
    [role |-> "assistant", content |-> <<text>>, tool_calls |-> <<>>,
     tool_call_id |-> 0]

\* The namespace a correction to a call of the tool belongs to.
NamespaceOf(name) ==
    IF name = "schedule_meeting" THEN "cal_preferences"
    ELSE "response_preferences"

\* The correction the Feedback Adapter derives from an edit or reject
\* Verdict: the tool is the rule key, the reviewer's payload the rule.
FeedbackCorrection(call, payload) == [key |-> call.name, text |-> payload]

\* A Merge(namespace, correction) operation.
MergeOf(ns, correction) == [ns |-> ns, correction |-> correction]

\* No Merge in flight.
Idle == [pc |-> "idle", ns |-> "", correction |-> [key |-> "", text |-> ""],
         seen |-> EmptyDocument]

\* The controller and the store before anything happened.
InitControl ==
    /\ pending = NoRequest
    /\ cursor = 0
    /\ applied = <<>>
    /\ submitted = 0
    /\ verdictOutcome = [id |-> 0, outcome |-> "none"]
    /\ store = EmptyStore

\* The batch being dispatched: every call already dispatched appended one
\* turn after the assistant turn that requested it.
CurrentBatch == messages[Len(messages) - cursor].tool_calls

\* The text a tool raised, recovered into the conversation.
ErrorText(call) == <<"error", call.name>>

\* The next call of the batch, or Deciding when the batch is dispatched.
AdvanceCursor ==
    IF cursor + 1 >= Len(CurrentBatch) THEN
        /\ cursor' = 0
        /\ node' = "llm_call"
        /\ step' = step + 1
    ELSE
        /\ cursor' = cursor + 1
        /\ UNCHANGED <<node, step>>

\* Dispatching, one Tool Call per step, in request order.  The completion
\* signal completes the run without being executed; a safe call is
\* executed and its result (or its error text) appended; a
\* requires-approval call is handed to the controller, which creates the
\* Interrupt Request and suspends the run before any further call.
DispatchCall ==
    /\ status = "running"
    /\ node = "tool_handler"
    /\ WithinRecursionLimit(step)
    /\ LET call == CurrentBatch[cursor + 1] IN
         IF call.name = "Done" THEN
            /\ status' = "completed"
            /\ node' = END
            /\ cursor' = 0
            /\ UNCHANGED <<messages, invoked, inputs, error, step, pending>>
         ELSE IF call.name \notin tools_by_name THEN
            /\ status' = "failed"
            /\ error' = "DecisionContractViolation"
            /\ UNCHANGED <<messages, invoked, inputs, node, step, pending, cursor>>
         ELSE IF RiskTier(call.name) = "requires-approval" THEN
            /\ pending' = InterruptRequest(call)
            /\ status' = "suspended"
            /\ UNCHANGED <<messages, invoked, inputs, error, node, step, cursor>>
         ELSE
            \E raised \in BOOLEAN :
              /\ invoked' = Append(invoked, Invocation(call, raised))
              /\ inputs' = Append(inputs, ToolInput(IF raised THEN cursor + 1 ELSE 0))
              /\ messages' = add_messages(messages,
                    <<ToolTurn(IF raised THEN ErrorText(call)
                               ELSE Observation(call), call.id)>>)
              /\ AdvanceCursor
              /\ UNCHANGED <<status, error, pending>>
    /\ UNCHANGED <<email_input, classification_decision, classifyCalls, actCalls,
                   answer, triage, context, harness, other, applied, submitted,
                   verdictOutcome, store, adapters, merged>>

\* Verdicts a reviewer may submit for the run.
MaxVerdicts == 3

\* Interrupt Request ids a Verdict may name: those of the tool calls a run
\* can make within the recursion limit, and one that no request ever had.
RequestIds == 1..(MaxBatch * ((RecursionLimit + 1) \div 2) + 1)

\* Mutant: a Verdict is stale only when no request is pending.
IsStaleUnlessNonePending(id) == pending = NoRequest

\* A Verdict is stale when it names a request that is not the pending one:
\* an unknown one or one already resolved.
IsStale(id) == pending = NoRequest \/ id # pending.id

\* Mutant: the request survives its Verdict.
ResolvedKeepsRequest == pending

\* The pending request once its Verdict is applied.
Resolved == NoRequest

\* Mutant: the response carries the preview of the discarded action.
ResponseOfPreview(text) == ResponseTurn("preview")

\* The completed response of a respond_instead Verdict.
CompletedResponse(text) == ResponseTurn(text)

\* A Verdict {kind, payload} arrives for request id.
SubmitVerdict ==
    /\ submitted < MaxVerdicts
    /\ submitted' = submitted + 1
    /\ \E id \in RequestIds, kind \in VerdictKinds, payload \in Payloads :
         IF IsStale(id) THEN
            /\ verdictOutcome' = [id |-> id, outcome |-> "StaleVerdict"]
            /\ UNCHANGED <<messages, invoked, inputs, status, error, node, step,
                           pending, cursor, applied, store, merged>>
         ELSE
            LET call == pending.tool_call IN
              /\ verdictOutcome' = [id |-> id, outcome |-> "applied"]
              /\ applied' = Append(applied, [id |-> id, kind |-> kind,
                                             payload |-> payload])
              /\ pending' = Resolved
              /\ error' = error
              /\ IF kind = "approve" THEN
                    \E raised \in BOOLEAN :
                      /\ invoked' = Append(invoked, Invocation(call, raised))
                      /\ inputs' = Append(inputs,
                            ToolInput(IF raised THEN cursor + 1 ELSE 0))
                      /\ messages' = add_messages(messages,
                            <<ToolTurn(IF raised THEN ErrorText(call)
                                       ELSE Observation(call), call.id)>>)
                      /\ status' = "running"
                      /\ AdvanceCursor
                      /\ UNCHANGED <<store, merged>>
                 ELSE IF kind = "edit" THEN
                    /\ invoked' = Append(invoked, Invocation(call, FALSE))
                    /\ inputs' = Append(inputs, ToolInput(0))
                    /\ messages' = add_messages(messages,
                          <<ToolTurn(<<"edited", call.name, payload>>, call.id)>>)
                    /\ status' = "running"
                    /\ AdvanceCursor
                    /\ store' = [store EXCEPT ![NamespaceOf(call.name)] =
                          Committed(@, FeedbackCorrection(call, payload))]
                    /\ merged' = Append(merged,
                          MergeOf(NamespaceOf(call.name),
                                  FeedbackCorrection(call, payload)))
                 ELSE IF kind = "reject" THEN
                    /\ messages' = add_messages(messages,
                          <<ToolTurn(<<"rejected", call.name, payload>>, call.id)>>)
                    /\ status' = "running"
                    /\ AdvanceCursor
                    /\ store' = [store EXCEPT ![NamespaceOf(call.name)] =
                          Committed(@, FeedbackCorrection(call, payload))]
                    /\ merged' = Append(merged,
                          MergeOf(NamespaceOf(call.name),
                                  FeedbackCorrection(call, payload)))
                    /\ UNCHANGED <<invoked, inputs>>
                 ELSE
                    /\ invoked' = invoked
                    /\ messages' = add_messages(messages,
                          <<CompletedResponse(payload)>>)
                    /\ status' = "completed"
                    /\ node' = END
                    /\ cursor' = 0
                    /\ UNCHANGED <<inputs, step, store, merged>>
    /\ UNCHANGED <<email_input, classification_decision, classifyCalls, actCalls,
                   answer, triage, context, harness, other, adapters>>

\* Mutant: cancelling a suspended run lets it go on without a Verdict.
CancelResumes ==
    /\ status \in {"running", "suspended"}
    /\ status' = IF status = "suspended" THEN "running" ELSE "failed"
    /\ error' = IF status = "suspended" THEN error ELSE "Cancelled"
    /\ pending' = NoRequest
    /\ cursor' = IF status = "suspended" /\ cursor + 1 < Len(CurrentBatch)
                 THEN cursor + 1 ELSE cursor
    /\ UNCHANGED <<email_input, classification_decision, messages, node, step,
                   classifyCalls, actCalls, answer, invoked, triage, context,
                   harness, inputs, other, applied, submitted,
                   verdictOutcome, store, adapters, merged>>

\* An operator cancels the run: a suspended run's Interrupt Request is
\* discarded; the run is marked failed between two steps.
Cancel ==
    /\ status \in {"running", "suspended"}
    /\ status' = "failed"
    /\ error' = "Cancelled"
    /\ pending' = NoRequest
    /\ UNCHANGED <<email_input, classification_decision, messages, node, step,
                   classifyCalls, actCalls, answer, invoked, triage, context,
                   harness, inputs, other, cursor, applied, submitted,
                   verdictOutcome, store, adapters, merged>>

\* The state a run starts in: the caller's input, nothing else.
InitRun ==
    /\ email_input \in EmailInputs
    /\ classification_decision = "unset"
    /\ messages = <<>>
    /\ node = "triage_router"
    /\ status = "running"
    /\ error = "none"
    /\ step = 0
    /\ classifyCalls = 0
    /\ actCalls = 0
    /\ answer = NoAnswer
    /\ invoked = <<>>
    /\ triage = None
    /\ context = <<>>
    /\ harness \in Harnesses
    /\ inputs = <<>>

\* No second run.
NoRun == [present |-> FALSE]

Init ==
    /\ InitRun
    /\ InitControl
    /\ adapters = <<>>
    /\ merged = <<>>
    /\ other = NoRun

Next ==
    \/ TriageRouter
    \/ LlmCall
    \/ ToolHandler
    \/ GraphRecursionError

Spec == Init /\ [][Next]_vars

\* The runtime keeps scheduling the node that is due.
FairSpec == Spec /\ WF_vars(Next)

\* ---------------------------------------------------------------- two runs
\* Every invoke of the compiled graph works on a state of its own, built
\* from the input it is given; the graph is compiled without a checkpointer
\* and the nodes touch no module-level data besides the read-only
\* tools_by_name and the prompts.  client.evaluate(max_concurrency=2) runs
\* two such invokes at once, and a caller may invoke twice on one message.

\* The state of the run that is scheduled.
RunState ==
    [present |-> TRUE, email_input |-> email_input,
     classification_decision |-> classification_decision,
     messages |-> messages, node |-> node, status |-> status,
     error |-> error, step |-> step, classifyCalls |-> classifyCalls,
     actCalls |-> actCalls, answer |-> answer, invoked |-> invoked,
     triage |-> triage, context |-> context, harness |-> harness,
     inputs |-> inputs]

\* The state of a run that was invoked on email by harness h and has not
\* taken a step yet.
FreshRun(email, h) ==
    [present |-> TRUE, email_input |-> email,
     classification_decision |-> "unset",
     messages |-> <<>>, node |-> "triage_router", status |-> "running",
     error |-> "none", step |-> 0, classifyCalls |-> 0,
     actCalls |-> 0, answer |-> NoAnswer, invoked |-> <<>>,
     triage |-> None, context |-> <<>>, harness |-> h,
     inputs |-> <<>>]

\* Mutant: the conversation is one list shared by the two runs.
SwitchSharedMessages ==
    /\ other.present
    /\ other.status = "running"
    /\ other' = RunState
    /\ email_input' = other.email_input
    /\ classification_decision' = other.classification_decision
    /\ messages' = messages
    /\ node' = other.node
    /\ status' = other.status
    /\ error' = other.error
    /\ step' = other.step
    /\ classifyCalls' = other.classifyCalls
    /\ actCalls' = other.actCalls
    /\ answer' = other.answer
    /\ invoked' = other.invoked
    /\ triage' = other.triage
    /\ context' = other.context
    /\ harness' = other.harness
    /\ inputs' = other.inputs
    /\ UNCHANGED controlVars

\* The scheduler suspends the run that is scheduled and resumes the other
\* one, which is still due a step.  Each run keeps its own state.
Switch ==
    /\ other.present
    /\ other.status = "running"
    /\ other' = RunState
    /\ email_input' = other.email_input
    /\ classification_decision' = other.classification_decision
    /\ messages' = other.messages
    /\ node' = other.node
    /\ status' = other.status
    /\ error' = other.error
    /\ step' = other.step
    /\ classifyCalls' = other.classifyCalls
    /\ actCalls' = other.actCalls
    /\ answer' = other.answer
    /\ invoked' = other.invoked
    /\ triage' = other.triage
    /\ context' = other.context
    /\ harness' = other.harness
    /\ inputs' = other.inputs
    /\ UNCHANGED controlVars

\* The second invoke on the same message starts at any point of the first,
\* which is then left where it is.
Replay ==
    /\ other.inputs = <<>>
    /\ Switch

\* Two invokes on one message.
InitReplay ==
    /\ InitRun
    /\ InitControl
    /\ adapters = <<>>
    /\ merged = <<>>
    /\ other = FreshRun(email_input, harness)

NextReplay ==
    \/ TriageRouter
    \/ LlmCall
    \/ ToolHandler
    \/ GraphRecursionError
    \/ Replay

ReplaySpec == InitReplay /\ [][NextReplay]_vars

\* Two concurrent invokes on different messages.
InitConcurrent ==
    /\ InitRun
    /\ InitControl
    /\ adapters = <<>>
    /\ merged = <<>>
    /\ \E email \in EmailInputs \ {email_input} :
         \E h \in Harnesses : other = FreshRun(email, h)

NextConcurrent ==
    \/ TriageRouter
    \/ LlmCall
    \/ ToolHandler
    \/ GraphRecursionError
    \/ Switch

ConcurrentSpec == InitConcurrent /\ [][NextConcurrent]_vars

\* ------------------------------------------------------- supervised run
\* One run of the workflow under the Interrupt/Resume Controller: the
\* notebook's triage_router and llm_call, Dispatching with risk tiers, the
\* reviewer's Verdicts and the operator's cancellation.
InitHitl ==
    /\ InitRun
    /\ harness = "workflow"
    /\ InitControl
    /\ adapters = <<>>
    /\ merged = <<>>
    /\ other = NoRun

NextHitl ==
    \/ TriageRouter
    \/ LlmCall
    \/ DispatchCall
    \/ SubmitVerdict
    \/ Cancel
    \/ GraphRecursionError

HitlSpec == InitHitl /\ [][NextHitl]_vars

\* ---------------------------------------------------- concurrent adapters
\* The feedback adapters of different runs share the Memory Store.  Each
\* Merge is a read-modify-write made atomic per namespace by
\* compare-and-swap: read the document, compute the merged rules, install
\* them if nobody committed in between, else read again (MergeConflict is
\* retried and never surfaced).

\* Feedback adapters that may be merging at once.
NumAdapters == 2

Adapters == 1..NumAdapters

\* Merge operations the adapters start in all.
MaxMerges == 3

Started ==
    Len(merged) + Cardinality({a \in Adapters : adapters[a].pc # "idle"})

\* An adapter starts Merge(ns, correction).
MergeBegin ==
    /\ Started < MaxMerges
    /\ \E a \in Adapters, ns \in Namespaces, correction \in Corrections :
         /\ adapters[a].pc = "idle"
         /\ adapters' = [adapters EXCEPT ![a] =
               [pc |-> "read", ns |-> ns, correction |-> correction,
                seen |-> EmptyDocument]]
    /\ UNCHANGED <<email_input, classification_decision, messages, node, status,
                   error, step, classifyCalls, actCalls, answer, invoked,
                   triage, context, harness, inputs, other, pending, cursor,
                   applied, submitted, verdictOutcome, store, merged>>

\* The adapter reads the namespace's document.
MergeRead ==
    /\ \E a \in Adapters :
         /\ adapters[a].pc = "read"
         /\ adapters' = [adapters EXCEPT ![a].pc = "swap",
                                         ![a].seen = store[adapters[a].ns]]
    /\ UNCHANGED <<email_input, classification_decision, messages, node, status,
                   error, step, classifyCalls, actCalls, answer, invoked,
                   triage, context, harness, inputs, other, pending, cursor,
                   applied, submitted, verdictOutcome, store, merged>>

\* The adapter installs the merged document if the one it read is still
\* the current one; otherwise it starts over.
MergeSwap ==
    /\ \E a \in Adapters :
         LET op == adapters[a] IN
           /\ op.pc = "swap"
           /\ IF CasSucceeds(store[op.ns], op.seen) THEN
                 /\ store' = [store EXCEPT ![op.ns] =
                                Committed(op.seen, op.correction)]
                 /\ merged' = Append(merged, MergeOf(op.ns, op.correction))
                 /\ adapters' = [adapters EXCEPT ![a] = Idle]
              ELSE
                 /\ adapters' = [adapters EXCEPT ![a].pc = "read"]
                 /\ UNCHANGED <<store, merged>>
    /\ UNCHANGED <<email_input, classification_decision, messages, node, status,
                   error, step, classifyCalls, actCalls, answer, invoked,
                   triage, context, harness, inputs, other, pending, cursor,
                   applied, submitted, verdictOutcome>>

InitMemory ==
    /\ InitRun
    /\ InitControl
    /\ adapters = [a \in Adapters |-> Idle]
    /\ merged = <<>>
    /\ other = NoRun

NextMemory ==
    \/ MergeBegin
    \/ MergeRead
    \/ MergeSwap

MemorySpec == InitMemory /\ [][NextMemory]_vars

\* ------------------------------------------------------------------ claims

Terminal == {"completed", "failed"}

AssistantTurns(msgs) == {j \in DOMAIN msgs : msgs[j].role = "assistant"}

ToolTurns(msgs) == {j \in DOMAIN msgs : msgs[j].role = "tool"}

HasCall(turn, name) == \E i \in DOMAIN turn.tool_calls : turn.tool_calls[i].name = name

\* C1: whenever an assistant turn of the conversation holds a tool call
\* named Done, at any position of its batch, the run is completed, and no
\* call named Done is ever handed to tool.invoke by tool_handler.
C1_DoneCompletesAndIsNeverInvoked ==
    /\ \A j \in AssistantTurns(messages) :
          HasCall(messages[j], "Done") => status = "completed"
    /\ \A i \in DOMAIN invoked : invoked[i].name # "Done"

\* Most llm_call executions RecursionLimit supersteps leave room for: the
\* agent graph alternates llm_call and tool_handler, llm_call first.
MaxActCalls == (RecursionLimit + 1) \div 2

C3_IgnoreNotifyTerminal ==
    classification_decision \in {"ignore", "notify"} =>
        /\ status = "completed"
        /\ node = END
        /\ actCalls = 0
        /\ step = 0
        /\ invoked = <<>>
        /\ messages = <<>>

C3_Witness ==
    /\ triage = "notify"
    /\ classification_decision = "notify"
    /\ status = "completed"

\* C4: under weak fairness of the steps every run eventually reaches a
\* terminal status, whatever the model answers.
C4_Terminates == <>(status \in Terminal)

\* The loop ended on the Done signal after at least one round of tools.
C4_Witness ==
    /\ status = "completed"
    /\ actCalls >= 2
    /\ messages[Len(messages)].tool_calls[1].name = "Done"

\* The tool messages that answer call id.
ResultsOf(msgs, id) == {t \in ToolTurns(msgs) : msgs[t].tool_call_id = id}

\* The calls of assistant turn j have been dispatched: tool_handler's update
\* follows the turn.
Dispatched(msgs, j) == msgs[j].role = "assistant" /\ j < Len(msgs)

\* The program has no risk tier and takes no Verdict: no call is ever
\* approved.
RequiresApproval == {"schedule_meeting"}

ApprovedCalls == {}

SomeInvokeRaised == \E i \in DOMAIN invoked : invoked[i].raised

\* C6 (as claimed): when a tool's invoke has raised, the run has not
\* failed and the conversation ends with a tool message that carries the
\* id of the call that raised.
C6_ToolErrorRecovered ==
    SomeInvokeRaised =>
        /\ status # "failed"
        /\ messages[Len(messages)].role = "tool"
        /\ messages[Len(messages)].tool_call_id = invoked[Len(invoked)].id

\* C6 (amended): when a tool's invoke has raised, the run has failed with
\* that exception in tool_handler, the raising call is the last one handed
\* to tool.invoke, and no tool message of the batch has been appended: the
\* conversation still ends with the assistant turn that requested it.
C6_ToolErrorFailsRun ==
    SomeInvokeRaised =>
        /\ status = "failed"
        /\ error = "ToolException"
        /\ node = "tool_handler"
        /\ invoked[Len(invoked)].raised
        /\ messages[Len(messages)].role = "assistant"
        /\ \E i \in DOMAIN messages[Len(messages)].tool_calls :
              messages[Len(messages)].tool_calls[i].id = invoked[Len(invoked)].id

\* The second call of a batch raised after the first had returned.
C6_Witness ==
    /\ Len(invoked) >= 2
    /\ invoked[Len(invoked)].raised
    /\ ~invoked[Len(invoked) - 1].raised
    /\ status = "failed"

\* C7: every tool call id of an assistant turn has at most one tool
\* message with that id.
C7_AtMostOneResult ==
    \A j \in AssistantTurns(messages) :
        \A i \in DOMAIN messages[j].tool_calls :
            Cardinality(ResultsOf(messages, messages[j].tool_calls[i].id)) <= 1

\* Two dispatched rounds, the second with two calls.
C7_Witness ==
    /\ Cardinality({j \in AssistantTurns(messages) : Dispatched(messages, j)}) >= 2
    /\ Cardinality(ToolTurns(messages)) >= 3

\* C8: the tool messages of a dispatched round follow its assistant turn
\* in the order of the turn's tool calls: the i-th message after the turn
\* answers the i-th call.
C8_ResultsInRequestOrder ==
    \A j \in AssistantTurns(messages) :
        Dispatched(messages, j) =>
            \A i \in DOMAIN messages[j].tool_calls :
                /\ j + i <= Len(messages)
                /\ messages[j + i].role = "tool"
                /\ messages[j + i].tool_call_id = messages[j].tool_calls[i].id
                /\ messages[j + i].content = Observation(messages[j].tool_calls[i])

\* A dispatched batch of two calls to different tools.
C8_Witness ==
    \E j \in AssistantTurns(messages) :
        /\ Dispatched(messages, j)
        /\ Len(messages[j].tool_calls) = 2
        /\ messages[j].tool_calls[1].name # messages[j].tool_calls[2].name

\* C9: when the model answers a category outside the enum, triage has
\* failed with ValueError: it routed nowhere, recorded no classification,
\* appended no turn and called the model once.
C9_InvalidCategoryFails ==
    (triage # None /\ triage \notin RouterCategories) =>
        /\ status = "failed"
        /\ error = "ValueError"
        /\ node = "triage_router"
        /\ classification_decision = "unset"
        /\ messages = <<>>
        /\ classifyCalls = 1
        /\ actCalls = 0
        /\ step = 0

C9_Witness ==
    /\ triage = "urgent"
    /\ status = "failed"

AnsweredWithoutCalls == answer.kind = "tool_calls" /\ answer.names = <<>>

\* C11: the agent graph repeats llm_call -> tool_handler -> llm_call until
\* a Done call or an assistant turn without tool calls; a run whose model
\* answered without a tool call has ended normally at END.
C11_NoToolCallEndsRun ==
    AnsweredWithoutCalls =>
        /\ status = "completed"
        /\ node = END
        /\ error = "none"

\* C12: triage calls llm_router exactly once per run, whatever the
\* category: never before triage has answered, once ever after.
C12_TriageCallsPortOnce ==
    /\ classifyCalls = IF triage = None THEN 0 ELSE 1
    /\ (status \in Terminal \/ node # "triage_router") => classifyCalls = 1

\* The triage_router node called alone, with a category outside the enum.
C12_Witness ==
    /\ harness = "triage_router"
    /\ triage \notin RouterCategories \cup {None}
    /\ classifyCalls = 1

\* The conversation triage seeds the loop with.
SeedConversation == <<UserTurn(RespondPrompt(email_input))>>

\* C13: when triage answered respond the loop is entered with exactly one
\* turn, the user turn describing the e-mail, and the first llm_call hands
\* the model that turn after its system prompt.
C13_LoopSeededWithUserTurn ==
    /\ (status = "running" /\ node = "llm_call" /\ actCalls = 0) =>
          /\ triage = "respond"
          /\ messages = SeedConversation
    /\ actCalls = 1 => context = <<SystemTurn>> \o SeedConversation
    /\ actCalls >= 1 => SubSeq(context, 2, 2) = SeedConversation

C13_Witness ==
    /\ actCalls = 1
    /\ answer.kind = "tool_calls"
    /\ context[2].content = RespondPrompt("api_question")

\* C14: for every category of the enum the recorded classification is the
\* category the model answered, in a full run and when the triage_router
\* node is called alone; once recorded it never changes.
C14_ClassificationRecordedOnce ==
    /\ [](triage \in RouterCategories => classification_decision = triage)
    /\ [][classification_decision # "unset" =>
            classification_decision' = classification_decision]_vars

C14_Witness ==
    /\ harness = "triage_router"
    /\ classification_decision = "respond"
    /\ status = "completed"

IsPrefix(s, t) == Len(s) <= Len(t) /\ SubSeq(t, 1, Len(s)) = s

\* C15: the conversation is append-only: every step leaves the turns it
\* found in place and in order, and only adds turns after them.
C15_AppendOnly == [][IsPrefix(messages, messages')]_vars

\* Two rounds of tool results behind the seed turn.
C15_Witness ==
    /\ Len(messages) >= 5
    /\ messages[Len(messages)].role = "tool"
    /\ actCalls = 2

\* Every tool call of assistant turn j has its tool message.
Answered(msgs, j) ==
    \A i \in DOMAIN msgs[j].tool_calls :
        Cardinality(ResultsOf(msgs, msgs[j].tool_calls[i].id)) = 1

\* C16: llm_call and tool_handler strictly alternate: llm_call is due only
\* when every tool call requested so far has its result in the
\* conversation; tool_handler is due only for the batch of the last
\* assistant turn, none of whose calls has a result yet; and no step both
\* calls the model and invokes a tool.
C16_DecidingDispatchingAlternate ==
    /\ [](status = "running" /\ node = "llm_call" =>
            /\ step = 2 * actCalls
            /\ \A j \in AssistantTurns(messages) : Answered(messages, j))
    /\ [](status = "running" /\ node = "tool_handler" =>
            /\ step = 2 * actCalls - 1
            /\ messages[Len(messages)].role = "assistant"
            /\ \A i \in DOMAIN messages[Len(messages)].tool_calls :
                  ResultsOf(messages, messages[Len(messages)].tool_calls[i].id) = {}
            /\ \A j \in AssistantTurns(messages) :
                  j < Len(messages) => Answered(messages, j))
    /\ [][/\ actCalls' # actCalls => (node = "llm_call" /\ invoked' = invoked)
          /\ invoked' # invoked => (node = "tool_handler" /\ actCalls' = actCalls)
         ]_vars

\* llm_call is due for the third time, after two dispatched batches.
C16_Witness ==
    /\ status = "running"
    /\ node = "llm_call"
    /\ actCalls = 2
    /\ Len(invoked) >= 2

C20_OneStatusTerminalAbsorbing ==
    /\ [](/\ status \in {"running", "suspended", "completed", "failed"}
          /\ status = "completed" <=> (node = END /\ error = "none")
          /\ status = "failed" <=> error # "none"
          /\ status = "running" <=> (node # END /\ error = "none"))
    /\ [][(status \in Terminal) => status' = status]_vars

\* A run that failed on a tool name that is not in the registry.
C20_Witness ==
    /\ status = "failed"
    /\ error = "KeyError"
    /\ node = "tool_handler"

AloneStep(email, st, in) ==
    IF in.node = "triage_router" THEN
        LET cmd == triage_router(in.category, email) IN
          IF cmd.raised THEN st
          ELSE [classification_decision |-> cmd.classification_decision,
                messages |-> add_messages(st.messages, cmd.messages)]
    ELSE IF in.node = "llm_call" THEN
        IF PortRaised(in) THEN st
        ELSE LET new == add_messages(st.messages,
                                     llm_call(st.messages, in.names))
             IN IF should_continue(new) \in PathMap
                THEN [st EXCEPT !.messages = new] ELSE st
    ELSE IF in.node = "tool_handler" THEN
        LET r == tool_handler(st.messages, in.k) IN
          IF r.raised = "none"
          THEN [st EXCEPT !.messages = add_messages(st.messages, r.messages)]
          ELSE st
    ELSE st

RECURSIVE AloneFrom(_, _, _, _)
AloneFrom(email, ins, i, st) ==
    IF i > Len(ins) THEN st
    ELSE AloneFrom(email, ins, i + 1, AloneStep(email, st, ins[i]))

\* The classification and conversation of a run on email that executes
\* alone and is given ins.
Alone(email, ins) ==
    AloneFrom(email, ins, 1,
              [classification_decision |-> "unset", messages |-> <<>>])

Outcome(r) ==
    [classification_decision |-> r.classification_decision,
     messages |-> r.messages]

\* C19: under every interleaving of the steps of two concurrent runs on
\* different messages, each run's classification and conversation are the
\* ones the run produces alone from what it was given, and a step of one
\* run leaves the state of the other untouched: the other run's state
\* changes only when the scheduler exchanges the two, each kept whole.
C19_RunsIndependent ==
    /\ [](other.present =>
            /\ other.email_input # email_input
            /\ Outcome(RunState) = Alone(email_input, inputs)
            /\ Outcome(other) = Alone(other.email_input, other.inputs))
    /\ [][other' # other => (other' = RunState /\ RunState' = other)]_vars

\* Both runs are in the middle of their loops, each with a tool result of
\* its own, so their steps were interleaved.
C19_Witness ==
    /\ other.present
    /\ status = "running"
    /\ other.status = "running"
    /\ Len(messages) >= 3
    /\ Len(other.messages) >= 3
    /\ messages[1] # other.messages[1]
    /\ messages[3].role = "tool"
    /\ other.messages[3].role = "tool"

\* The Verdict submitted last named the pending Interrupt Request.
LastApplied == applied[Len(applied)]

\* C21: a Verdict that names an unknown or already-resolved Interrupt
\* Request comes to StaleVerdict every time it is submitted and changes
\* neither the run's status, its conversation, its pending request nor the
\* Memory Store, and runs no tool; a Verdict that names the pending request
\* is applied.  No tool call is handed to a tool twice and no request gets
\* two Verdicts applied.
C21_StaleVerdictDiscarded ==
    /\ [](/\ \A m, n \in DOMAIN invoked : invoked[m].id = invoked[n].id => m = n
          /\ \A m, n \in DOMAIN applied : applied[m].id = applied[n].id => m = n)
    /\ [][submitted' # submitted =>
            IF pending = NoRequest \/ verdictOutcome'.id # pending.id
            THEN /\ verdictOutcome'.outcome = "StaleVerdict"
                 /\ UNCHANGED <<status, error, node, messages, invoked, store,
                                pending, applied, cursor, step>>
            ELSE /\ verdictOutcome'.outcome = "applied"
                 /\ LastApplied'.id = pending.id]_vars

\* The Verdict of a resolved request was replayed: of three Verdicts one
\* was applied and the last one, naming the same request, was stale.
C21_Witness ==
    /\ submitted = 3
    /\ Len(applied) = 1
    /\ verdictOutcome = [id |-> applied[1].id, outcome |-> "StaleVerdict"]
    /\ \E n \in DOMAIN invoked : invoked[n].id = applied[1].id

\* C22: the run has a pending Interrupt Request exactly when it is
\* suspended.  The request is created by the step that suspends the run,
\* for the call being dispatched, and goes away only when its Verdict is
\* applied or the run is cancelled.
C22_RequestIffSuspended ==
    /\ [](pending # NoRequest <=> status = "suspended")
    /\ [][(pending = NoRequest /\ pending' # NoRequest) =>
             (/\ status = "running"
              /\ status' = "suspended"
              /\ pending' = InterruptRequest(CurrentBatch[cursor + 1]))]_vars
    /\ [][(pending # NoRequest /\ pending' # pending) =>
             (/\ pending' = NoRequest
              /\ \/ /\ Len(applied') = Len(applied) + 1
                    /\ IsPrefix(applied, applied')
                    /\ LastApplied'.id = pending.id
                 \/ /\ status' = "failed"
                    /\ error' = "Cancelled"
                    /\ applied' = applied)]_vars

\* The run is suspended a second time, after a first request was resolved.
C22_Witness ==
    /\ status = "suspended"
    /\ pending.tool_call.name = "schedule_meeting"
    /\ Len(applied) = 1
    /\ pending.id # applied[1].id

\* C23: from a suspended run no step calls the model or runs a tool or
\* touches the conversation while the run stays suspended, and the run
\* leaves Suspended only by the application of one Verdict naming its
\* request, or by cancellation, which fails it.
C23_SuspendedUntilVerdict ==
    /\ [][status = "suspended" =>
             (actCalls' = actCalls /\ classifyCalls' = classifyCalls)]_vars
    /\ [][(status = "suspended" /\ status' = "suspended") =>
             UNCHANGED <<messages, invoked, node, step, cursor, pending,
                         applied, store>>]_vars
    /\ [][(status = "suspended" /\ status' # "suspended") =>
             (\/ /\ Len(applied') = Len(applied) + 1
                 /\ IsPrefix(applied, applied')
                 /\ LastApplied'.id = pending.id
                 /\ verdictOutcome'.outcome = "applied"
              \/ /\ status' = "failed"
                 /\ error' = "Cancelled"
                 /\ UNCHANGED <<messages, invoked, applied>>)]_vars

\* A stale Verdict reached a suspended run, which stays suspended.
C23_Witness ==
    /\ status = "suspended"
    /\ verdictOutcome.outcome = "StaleVerdict"
    /\ verdictOutcome.id # pending.id
    /\ submitted >= 2

\* C24: once a respond_instead Verdict was applied, the run is completed,
\* the call that was pending was never handed to its tool and has no
\* tool result, and the last turn of the conversation holds exactly the
\* Verdict's text.
C24_RespondInsteadCompletes ==
    (applied # <<>> /\ LastApplied.kind = "respond_instead") =>
        /\ status = "completed"
        /\ node = END
        /\ pending = NoRequest
        /\ \A n \in DOMAIN invoked : invoked[n].id # LastApplied.id
        /\ ResultsOf(messages, LastApplied.id) = {}
        /\ messages[Len(messages)].role = "assistant"
        /\ messages[Len(messages)].content = <<LastApplied.payload>>

\* A respond_instead Verdict with the text "q" was applied to the second
\* call of a batch.
C24_Witness ==
    /\ applied # <<>>
    /\ LastApplied.kind = "respond_instead"
    /\ LastApplied.payload = "q"
    /\ Len(messages) >= 4
    /\ messages[Len(messages) - 1].role = "tool"

\* The corrections merged into namespace ns so far, in commit order.
MergedInto(ns) ==
    [i \in 1..Cardinality({j \in DOMAIN merged : merged[j].ns = ns}) |->
       merged[CHOOSE j \in DOMAIN merged :
                /\ merged[j].ns = ns
                /\ Cardinality({k \in 1..j : merged[k].ns = ns}) = i].correction]

\* The positions of the rules of a document that carry key.
RulesFor(rules, key) == {i \in DOMAIN rules : rules[i].key = key}

\* The last correction of a sequence that carries key.
LatestFor(cs, key) ==
    cs[CHOOSE i \in RulesFor(cs, key) : \A j \in RulesFor(cs, key) : j <= i]

\* C25: in every namespace, for every rule key that one or more committed
\* corrections carried, Read returns exactly one rule with that key and it
\* is the latest of those corrections; a key no correction carried has no
\* rule.  A committing Merge whose key is new appends its correction and
\* leaves the rules that were there as they were; one whose key exists
\* keeps every other rule in place; no Merge touches another namespace.
C25_LatestCorrectionPerKey ==
    /\ [](\A ns \in Namespaces : \A key \in RuleKeys :
            LET cs == MergedInto(ns)
                rules == Read(store, ns)
            IN IF RulesFor(cs, key) = {} THEN RulesFor(rules, key) = {}
               ELSE /\ Cardinality(RulesFor(rules, key)) = 1
                    /\ \A i \in RulesFor(rules, key) :
                          rules[i] = LatestFor(cs, key))
    /\ [][Len(merged') = Len(merged) + 1 =>
            LET m == merged'[Len(merged')]
                old == Read(store, m.ns)
                new == Read(store', m.ns)
            IN /\ \A ns \in Namespaces \ {m.ns} : store'[ns] = store[ns]
               /\ IF RulesFor(old, m.correction.key) = {}
                  THEN new = Append(old, m.correction)
                  ELSE /\ Len(new) = Len(old)
                       /\ \A i \in DOMAIN old :
                             new[i] = IF old[i].key = m.correction.key
                                      THEN m.correction ELSE old[i]]_vars

\* Three corrections with one rule key went into one namespace, the last
\* one differing from the one before.
C25_Witness ==
    /\ Len(merged) = 3
    /\ \A i \in DOMAIN merged :
          merged[i].ns = "cal_preferences" /\ merged[i].correction.key = "duration"
    /\ merged[2].correction.text # merged[3].correction.text
    /\ Read(store, "cal_preferences") = <<merged[3].correction>>

RECURSIVE MergeAll(_, _, _)
\* The rules that merging cs[i], cs[i+1], ... one after the other gives.
MergeAll(rules, cs, i) ==
    IF i > Len(cs) THEN rules
    ELSE MergeAll(Merge(rules, cs[i]), cs, i + 1)

\* C26: whatever the interleaving of the adapters' steps, each namespace's
\* document is the one that the committed Merge operations give when they
\* are applied one after the other in commit order, and its version
\* counts them: no committed Merge is lost.
C26_NoLostUpdate ==
    \A ns \in Namespaces :
        /\ Read(store, ns) = MergeAll(<<>>, MergedInto(ns), 1)
        /\ store[ns].version = Len(MergedInto(ns))

\* Two adapters read the same document of one namespace; one committed a
\* rule with one key, then the other, after a retry, a rule with the other.
C26_Witness ==
    /\ Len(merged) = 2
    /\ merged[1].ns = merged[2].ns
    /\ merged[1].correction.key # merged[2].correction.key
    /\ Len(Read(store, merged[1].ns)) = 2
    /\ \E a \in Adapters :
          /\ adapters[a].pc = "swap"
          /\ adapters[a].ns = merged[1].ns
          /\ adapters[a].seen.version < store[merged[1].ns].version

IsLlmInput(in) == in.node = "llm_call"

IsAssistant(turn) == turn.role = "assistant"

\* The names of the tool calls of a turn, in order.
NamesOf(turn) == [i \in DOMAIN turn.tool_calls |-> turn.tool_calls[i].name]

NearestAssistant(msgs, t) ==
    CHOOSE j \in AssistantTurns(msgs) :
        j < t /\ \A i \in AssistantTurns(msgs) : i < t => i <= j

\* C28: every tool-result turn carries the id of a tool call of the
\* nearest assistant turn before it, and whenever llm_call is next (the
\* Dispatching round is complete) the turns after the last assistant turn
\* are exactly one tool result per tool call that turn requested.
C28_ResultsCorrelated ==
    /\ \A t \in ToolTurns(messages) :
          /\ \E j \in AssistantTurns(messages) : j < t
          /\ \E i \in DOMAIN messages[NearestAssistant(messages, t)].tool_calls :
                messages[NearestAssistant(messages, t)].tool_calls[i].id
                    = messages[t].tool_call_id
    /\ (node = "llm_call" /\ AssistantTurns(messages) # {}) =>
          LET j == NearestAssistant(messages, Len(messages) + 1)
              calls == messages[j].tool_calls
          IN /\ Len(messages) - j = Len(calls)
             /\ \A t \in (j + 1)..Len(messages) : messages[t].role = "tool"
             /\ \A i \in DOMAIN calls :
                   Cardinality({t \in (j + 1)..Len(messages) :
                                  messages[t].tool_call_id = calls[i].id}) = 1

\* Two rounds were dispatched, the second one a batch of two calls.
C28_Witness ==
    /\ node = "llm_call"
    /\ Len(messages) = 6
    /\ messages[4].role = "assistant"
    /\ Len(messages[4].tool_calls) = 2
    /\ messages[6].tool_call_id = messages[4].tool_calls[2].id

C30_DispatchAllOrNothing ==
    (status = "failed" /\ node = "tool_handler"
        /\ error \in {"ToolException", "KeyError"}) =>
        LET calls == messages[Len(messages)].tool_calls IN
          /\ messages[Len(messages)].role = "assistant"
          /\ \A i \in DOMAIN calls : ResultsOf(messages, calls[i].id) = {}
          /\ \E k \in DOMAIN calls :
                /\ \A i \in 1..(k - 1) :
                      \E n \in DOMAIN invoked :
                        invoked[n] = Invocation(calls[i], FALSE)
                /\ \A i \in (k + 1)..Len(calls) :
                      \A n \in DOMAIN invoked : invoked[n].id # calls[i].id
                /\ IF error = "ToolException"
                   THEN invoked[Len(invoked)] = Invocation(calls[k], TRUE)
                   ELSE /\ calls[k].name \notin tools_by_name
                        /\ \A n \in DOMAIN invoked : invoked[n].id # calls[k].id

\* The second call of a batch names a tool that is not registered; the
\* first one was run and has no result in the conversation.
C30_Witness ==
    /\ status = "failed"
    /\ node = "tool_handler"
    /\ error = "KeyError"
    /\ NamesOf(messages[Len(messages)]) = <<"write_email", "lookup_contact">>
    /\ invoked # <<>>
    /\ invoked[Len(invoked)] =
          Invocation(messages[Len(messages)].tool_calls[1], FALSE)

InLoop == node \in {"llm_call", "tool_handler"}

\* C32: whenever the run is in the tool-calling loop its
\* classification_decision is respond and its conversation starts with the
\* user turn made from the e-mail; the step that records respond is the
\* step that writes that turn and enters the loop.
C32_LoopImpliesRespond ==
    /\ [](InLoop =>
            /\ classification_decision = "respond"
            /\ triage = "respond"
            /\ Len(messages) >= 1
            /\ messages[1] = UserTurn(RespondPrompt(email_input)))
    /\ [][(classification_decision # "respond"
             /\ classification_decision' = "respond") =>
            (/\ messages = <<>>
             /\ messages' = <<UserTurn(RespondPrompt(email_input))>>
             /\ node = "triage_router"
             /\ (harness = "workflow" => node' = "llm_call"))]_vars
    /\ [][(~InLoop /\ InLoop') => classification_decision' = "respond"]_vars

\* The loop is dispatching its second batch.
C32_Witness ==
    /\ status = "running"
    /\ node = "tool_handler"
    /\ actCalls = 2
    /\ classification_decision = "respond"

\* C33: a run that triage classified ignore or notify has an empty
\* conversation and the e-mail it was given; no step of any run changes
\* email_input, the triage step changes nothing of the state but
\* classification_decision when it records ignore or notify, and llm_call
\* and tool_handler never change classification_decision.
C33_TriageAndLoopFrame ==
    /\ [](triage \in {"ignore", "notify"} =>
            /\ messages = <<>>
            /\ classification_decision = triage
            /\ status = "completed")
    /\ [][email_input' = email_input]_vars
    /\ [][(node = "triage_router" /\ triage' \in {"ignore", "notify"}) =>
            (/\ messages' = messages
             /\ classification_decision' = triage')]_vars
    /\ [][InLoop => classification_decision' = classification_decision]_vars

\* A notify run of the workflow ended with an empty conversation.
C33_Witness ==
    /\ triage = "notify"
    /\ classification_decision = "notify"
    /\ status = "completed"
    /\ messages = <<>>
    /\ harness = "workflow"
    /\ email_input = "api_question"

=============================================================================
